---- MODULE Spec2Model ----
(***************************************************************************)
(* A model of happyStates.py: the point-in-polygon classifier, the         *)
(* location resolver, the tweet text normalizer and the two-pass           *)
(* sentiment pipeline of main().                                           *)
(*                                                                         *)
(* Texts and words are sequences of one-character strings.  Numbers that   *)
(* the program holds as floats are exact rationals <<num, den>>, den > 0,  *)
(* in lowest terms.                                                        *)
(***************************************************************************)
EXTENDS Integers, Sequences, FiniteSets, TLC

VARIABLES
    pc,             \* position in main(), or in the driver of a single function
    city_arg,       \* 1 when city resolution is enabled
    state_bounds,   \* region table, in iteration order: <<[name, bounds]>>
    scores,         \* seed lexicon: word -> integer
    n_read,         \* number of tweets the selection loop has consumed
    t,              \* the tweet the selection loop is handling
    coord_coord,    \* explicit coordinates <<lon, lat>> of t, or NoCoord (0)
    coord_place,    \* first bounding-box vertex of t's US place, or NoCoord (0)
    city,           \* city name taken from t's user location, or <<>>
    coord,          \* resolved coordinate <<lon, lat>>, or NoCoord (False)
    state,          \* region of coord; "unbound" before the first assignment
    tweet_dict,     \* id -> <<state, lat, lon, text_list, text(, score)>>
    term_sents,     \* word -> <<total, count>>
    key,            \* the key the running pass-1 / pass-2 loop is at
    p1_done,        \* keys pass 1 has iterated over
    scores_update,  \* extended lexicon: word -> rational
    output,         \* rows written to the output file
    tweet,          \* argument of process_tweet (single-function driver)
    w_list          \* result of process_tweet (single-function driver)

vars == <<pc, city_arg, state_bounds, scores, n_read, t, coord_coord,
          coord_place, city, coord, state, tweet_dict, term_sents, key,
          p1_done, scores_update, output, tweet, w_list>>

----------------------------------------------------------------------------
(* Characters                                                               *)

LowerLetters ==
    <<"a","b","c","d","e","f","g","h","i","j","k","l","m",
      "n","o","p","q","r","s","t","u","v","w","x","y","z">>

UpperLetters ==
    <<"A","B","C","D","E","F","G","H","I","J","K","L","M",
      "N","O","P","Q","R","S","T","U","V","W","X","Y","Z">>

Digits == {"0","1","2","3","4","5","6","7","8","9"}

Range(s) == {s[i] : i \in DOMAIN s}

\* \s of the re module (no UNICODE flag)
IsSpace(c) == c \in {" ", "\t", "\n", "\r"}

\* \w of the re module (no UNICODE flag): [a-zA-Z0-9_]
IsWordChar(c) ==
    c \in Range(LowerLetters) \cup Range(UpperLetters) \cup Digits \cup {"_"}

\* str.lower() on one character
LowerChar(c) ==
    IF c \in Range(UpperLetters)
    THEN LowerLetters[CHOOSE i \in DOMAIN UpperLetters : UpperLetters[i] = c]
    ELSE c

\* a faulty lower(): the text is left as it is
LowerSkipped(s) == s

\* tweet.lower()
Lower(s) == [i \in DOMAIN s |-> LowerChar(s[i])]

\* s[i:j] of Python, 1-based and with j exclusive
Slice(s, i, j) == SubSeq(s, i, j - 1)

\* s.startswith(p, i - 1)
StartsAt(s, i, p) ==
    /\ i + Len(p) - 1 <= Len(s)
    /\ \A k \in 1..Len(p) : s[i + k - 1] = p[k]

\* index just past the run of whitespace (non-whitespace) that starts at i
RECURSIVE SpaceRunEnd(_, _)
SpaceRunEnd(s, i) ==
    IF i <= Len(s) /\ IsSpace(s[i]) THEN SpaceRunEnd(s, i + 1) ELSE i

RECURSIVE NonSpaceRunEnd(_, _)
NonSpaceRunEnd(s, i) ==
    IF i <= Len(s) /\ ~IsSpace(s[i]) THEN NonSpaceRunEnd(s, i + 1) ELSE i

----------------------------------------------------------------------------
(* process_tweet                                                            *)

URL == <<"U","R","L">>
USER == <<"U","S","E","R">>

\* where a match of ((www\.[\s]+)|(https?://[^\s]+)) starting at i ends
\* (exclusive), or 0 when there is none
UrlMatchEnd(s, i) ==
    LET www == <<"w","w","w",".">>
        http == <<"h","t","t","p",":","/","/">>
        https == <<"h","t","t","p","s",":","/","/">>
    IN  IF StartsAt(s, i, www) /\ SpaceRunEnd(s, i + 4) > i + 4
        THEN SpaceRunEnd(s, i + 4)
        ELSE IF StartsAt(s, i, https) /\ NonSpaceRunEnd(s, i + 8) > i + 8
        THEN NonSpaceRunEnd(s, i + 8)
        ELSE IF StartsAt(s, i, http) /\ NonSpaceRunEnd(s, i + 7) > i + 7
        THEN NonSpaceRunEnd(s, i + 7)
        ELSE 0

\* re.sub('((www\.[\s]+)|(https?://[^\s]+))', 'URL', tweet), from index i on
RECURSIVE SubUrl(_, _)
SubUrl(s, i) ==
    IF i > Len(s) THEN <<>>
    ELSE IF UrlMatchEnd(s, i) > 0 THEN URL \o SubUrl(s, UrlMatchEnd(s, i))
    ELSE <<s[i]>> \o SubUrl(s, i + 1)

\* re.sub('@[^\s]+', 'USER', tweet), from index i on
RECURSIVE SubUser(_, _)
SubUser(s, i) ==
    IF i > Len(s) THEN <<>>
    ELSE IF s[i] = "@" /\ NonSpaceRunEnd(s, i + 1) > i + 1
    THEN USER \o SubUser(s, NonSpaceRunEnd(s, i + 1))
    ELSE <<s[i]>> \o SubUser(s, i + 1)

\* re.sub('[\s]+', ' ', tweet), from index i on
RECURSIVE SubSpaces(_, _)
SubSpaces(s, i) ==
    IF i > Len(s) THEN <<>>
    ELSE IF IsSpace(s[i]) THEN <<" ">> \o SubSpaces(s, SpaceRunEnd(s, i))
    ELSE <<s[i]>> \o SubSpaces(s, i + 1)

\* re.sub(r'#([^\s]+)', r'\1', tweet), from index i on
RECURSIVE SubHash(_, _)
SubHash(s, i) ==
    IF i > Len(s) THEN <<>>
    ELSE IF s[i] = "#" /\ NonSpaceRunEnd(s, i + 1) > i + 1
    THEN Slice(s, i + 1, NonSpaceRunEnd(s, i + 1))
             \o SubHash(s, NonSpaceRunEnd(s, i + 1))
    ELSE <<s[i]>> \o SubHash(s, i + 1)

\* s.strip(chars)
RECURSIVE LStrip(_, _)
LStrip(s, chars) ==
    IF s # <<>> /\ Head(s) \in chars THEN LStrip(Tail(s), chars) ELSE s

RECURSIVE RStrip(_, _)
RStrip(s, chars) ==
    IF s # <<>> /\ s[Len(s)] \in chars
    THEN RStrip(SubSeq(s, 1, Len(s) - 1), chars) ELSE s

Strip(s, chars) == RStrip(LStrip(s, chars), chars)

\* re.findall(r"[\w']+", tweet), from index i on
RECURSIVE TokenRunEnd(_, _)
TokenRunEnd(s, i) ==
    IF i <= Len(s) /\ (IsWordChar(s[i]) \/ s[i] = "'")
    THEN TokenRunEnd(s, i + 1) ELSE i

RECURSIVE FindWords(_, _)
FindWords(s, i) ==
    IF i > Len(s) THEN <<>>
    ELSE IF TokenRunEnd(s, i) > i
    THEN <<Slice(s, i, TokenRunEnd(s, i))>> \o FindWords(s, TokenRunEnd(s, i))
    ELSE FindWords(s, i + 1)

\* re.compile(r"(.)\1{1,}", re.DOTALL).sub(r"\1\1", w), from index i on
RECURSIVE RepeatEnd(_, _)
RepeatEnd(s, i) ==
    IF i + 1 <= Len(s) /\ s[i + 1] = s[i] THEN RepeatEnd(s, i + 1) ELSE i + 1

RECURSIVE SubRepeats(_, _)
SubRepeats(s, i) ==
    IF i > Len(s) THEN <<>>
    ELSE IF RepeatEnd(s, i) > i + 1
    THEN <<s[i], s[i]>> \o SubRepeats(s, RepeatEnd(s, i))
    ELSE <<s[i]>> \o SubRepeats(s, i + 1)

\* w.split('\'')[0]
RECURSIVE BeforeApostrophe(_)
BeforeApostrophe(w) ==
    IF w = <<>> \/ Head(w) = "'" THEN <<>>
    ELSE <<Head(w)>> \o BeforeApostrophe(Tail(w))

\* filter(None, w_list), then [w for w in w_list if not w[0].isdigit()]
KeepWord(w) == w # <<>> /\ w[1] \notin Digits

\* process_tweet from the replacement of user names on, s2 being the text
\* after the replacement of URLs
WordsAfterUrl(s2) ==
    LET s3 == SubUser(s2, 1)
        s4 == SubSpaces(s3, 1)
        s5 == SubHash(s4, 1)
        s6 == Strip(s5, {"'", "\""})
        l1 == FindWords(s6, 1)
        l2 == [i \in DOMAIN l1 |-> SubRepeats(l1[i], 1)]
        l3 == [i \in DOMAIN l2 |-> Strip(l2[i], {"'", "\"", "?", ",", "."})]
        l4 == [i \in DOMAIN l3 |-> BeforeApostrophe(l3[i])]
    IN  SelectSeq(l4, KeepWord)

process_tweet(text) == WordsAfterUrl(SubUrl(Lower(text), 1))

----------------------------------------------------------------------------
(* Rational arithmetic for the float values of the scoring passes          *)

Abs(n) == IF n < 0 THEN -n ELSE n

RECURSIVE GCD(_, _)
GCD(a, b) == IF b = 0 THEN a ELSE GCD(b, a % b)

\* the rational n/d, d # 0, in lowest terms with a positive denominator
Frac(n, d) ==
    LET g == GCD(Abs(n), Abs(d))
        sgn == IF d < 0 THEN -1 ELSE 1
    IN  <<sgn * (n \div g), sgn * (d \div g)>>

Rat(n) == <<n, 1>>

RatAdd(a, b) == Frac(a[1] * b[2] + b[1] * a[2], a[2] * b[2])

\* a / n for a rational a and an integer n # 0
RatDivInt(a, n) == Frac(a[1], a[2] * n)

----------------------------------------------------------------------------
(* point_inside_state, state_of_point                                       *)

Min(a, b) == IF a < b THEN a ELSE b
Max(a, b) == IF a > b THEN a ELSE b

NoState == "No state found"

\* x <= xinters, where xinters = (y-p1y) * (p2x-p1x) / (p2y-p1y) + p1x and
\* p1y # p2y; the division is exact for the integer coordinates of the model
XLeqXinters(x, y, p1, p2) ==
    IF p2[2] - p1[2] > 0
    THEN (x - p1[1]) * (p2[2] - p1[2]) <= (y - p1[2]) * (p2[1] - p1[1])
    ELSE (x - p1[1]) * (p2[2] - p1[2]) >= (y - p1[2]) * (p2[1] - p1[1])

\* a faulty edge test: the lower end of the edge is included too
CrossesInclusive(x, y, p1, p2) ==
    /\ y >= Min(p1[2], p2[2])
    /\ y <= Max(p1[2], p2[2])
    /\ x <= Max(p1[1], p2[1])
    /\ (p1[1] = p2[1] \/ (p1[2] # p2[2] /\ XLeqXinters(x, y, p1, p2)))

\* whether the edge p1 -> p2 toggles `inside`.  The first two tests can both
\* hold only when p1y # p2y, so xinters is always assigned before it is read.
Crosses(x, y, p1, p2) ==
    /\ y > Min(p1[2], p2[2])
    /\ y <= Max(p1[2], p2[2])
    /\ x <= Max(p1[1], p2[1])
    /\ (p1[1] = p2[1] \/ XLeqXinters(x, y, p1, p2))

\* the loop `for i in range(n+1)` from iteration i on, with p1 and inside
RECURSIVE InsideLoop(_, _, _, _, _, _)
InsideLoop(x, y, bounds, i, p1, inside) ==
    IF i > Len(bounds) THEN inside
    ELSE LET p2 == bounds[(i % Len(bounds)) + 1]
         IN  InsideLoop(x, y, bounds, i + 1, p2,
                        IF Crosses(x, y, p1, p2) THEN ~inside ELSE inside)

point_inside_state(x, y, bounds) ==
    InsideLoop(x, y, bounds, 0, bounds[1], FALSE)

\* regions are visited in the table's iteration order; the first hit wins
RECURSIVE StateScan(_, _, _, _)
StateScan(sb, lat, lon, i) ==
    IF i > Len(sb) THEN NoState
    ELSE IF point_inside_state(lat, lon, sb[i].bounds) THEN sb[i].name
    ELSE StateScan(sb, lat, lon, i + 1)

state_of_point(sb, lat, lon) == StateScan(sb, lat, lon, 1)

----------------------------------------------------------------------------
(* Tables main() loads from its input files                                 *)

good == <<"g","o","o","d">>
bad == <<"b","a","d">>
great == <<"g","r","e","a","t">>
awesome == <<"a","w","e","s","o","m","e">>
the == <<"t","h","e">>

NewYork == <<"N","e","w"," ","Y","o","r","k">>
NewYorkCity == <<"N","e","w"," ","Y","o","r","k"," ","C","i","t","y">>
Boston == <<"B","o","s","t","o","n">>

EmptyDict == <<>>

\* states.xml: region name -> (lat, lon) boundary
USStates ==
    << [name |-> "Ohio", bounds |-> << <<0,0>>, <<4,0>>, <<4,2>>, <<0,2>> >>],
       [name |-> "Iowa", bounds |-> << <<0,4>>, <<4,4>>, <<4,6>>, <<0,6>> >>] >>

\* US_cities.txt: asciiname -> (lon, lat)
city_dict == (NewYorkCity :> <<1, 2>>) @@ (Boston :> <<9, 3>>)

\* stopwords.txt
stop_words == {the, USER, <<"R","T">>}

\* AFINN-111.txt: two seed tables
SeedGood == (good :> 3)
SeedGoodBad == (good :> 2) @@ (bad :> -2)
Seeds == {SeedGood, SeedGoodBad}

----------------------------------------------------------------------------
(* The tweets of the input file                                             *)

TextGoodAwesome == <<"g","o","o","d"," ","a","w","e","s","o","m","e">>
TextGoodBadGreat == <<"g","o","o","d"," ","b","a","d"," ","g","r","e","a","t">>
TextAllKnown == <<"G","o","o","d"," ","g","o","o","d","!">>
TextStopOnly == <<"t","h","e">>
TextRepeat ==
    <<"g","o","o","d"," ","a","w","e","s","o","m","e"," ",
      "a","w","e","s","o","m","e">>

Texts ==
    {TextGoodAwesome, TextGoodBadGreat, TextAllKnown, TextStopOnly, TextRepeat}

LocNewYork == <<"N","e","w"," ","Y","o","r","k",","," ","N","Y">>
LocBoston == <<"B","o","s","t","o","n">>
LocMars == <<"M","a","r","s",","," ","S","o","l">>

\* user['location']: None / '' is <<>>
Locations == {<<>>, LocNewYork, LocBoston, LocMars}

NoCoord == <<>>

\* tweet['coordinates']['coordinates'] as [lon, lat]; None is NoCoord
Coordinates == {NoCoord, <<1, 3>>, <<9, 9>>}

\* tweet['place']: country and bounding_box.coordinates[0][0] as [lon, lat]
NoPlace == [present |-> FALSE, country |-> "", vertex |-> NoCoord]
PlaceIowa ==
    [present |-> TRUE, country |-> "United States", vertex |-> <<5, 1>>]
PlaceOffshore ==
    [present |-> TRUE, country |-> "United States", vertex |-> <<3, 1>>]
PlaceCanada ==
    [present |-> TRUE, country |-> "Canada", vertex |-> <<5, 3>>]
Places == {NoPlace, PlaceIowa, PlaceOffshore, PlaceCanada}

\* a record without 'text' (a delete notice)
NoTextRecord(id) ==
    [id |-> id, has_text |-> FALSE, text |-> <<>>, lang |-> "",
     location |-> <<>>, place |-> NoPlace, coordinates |-> NoCoord]

\* English tweets with every combination of location signals and one text,
\* English tweets with coordinates in Ohio and every text, tweets in another
\* language, and a record without text.  The resolution of the location
\* does not read the text, and the scoring does not read the signals.
TweetsWithId(id) ==
    {NoTextRecord(id)} \cup
    [id : {id}, has_text : {TRUE}, text : {TextGoodAwesome}, lang : {"en"},
     location : Locations, place : Places, coordinates : Coordinates] \cup
    [id : {id}, has_text : {TRUE}, text : Texts, lang : {"en"},
     location : {<<>>}, place : {NoPlace}, coordinates : {<<1, 3>>}] \cup
    [id : {id}, has_text : {TRUE}, text : {TextGoodAwesome}, lang : {"de"},
     location : {<<>>, LocNewYork}, place : {NoPlace, PlaceIowa},
     coordinates : {NoCoord, <<1, 3>>}]

\* number of lines of the input file the model reads at most
MaxTweets == 2

----------------------------------------------------------------------------
(* main(): selection of tweets and resolution of their location             *)

\* user['location'].split(',')[0]
RECURSIVE BeforeComma(_)
BeforeComma(loc) ==
    IF loc = <<>> \/ Head(loc) = "," THEN <<>>
    ELSE <<Head(loc)>> \o BeforeComma(Tail(loc))

\* coord_coord after the signals of tw have been read
ReadCoordCoord(tw) ==
    IF tw.lang = "en" /\ tw.coordinates # NoCoord
    THEN tw.coordinates ELSE NoCoord

\* coord_place after the signals of tw have been read
ReadCoordPlace(tw) ==
    IF tw.lang = "en" /\ tw.place.present /\ tw.place.country = "United States"
    THEN tw.place.vertex ELSE NoCoord

\* city after the signals of tw have been read
ReadCity(tw) ==
    IF tw.lang = "en" /\ tw.location # <<>>
    THEN BeforeComma(tw.location) ELSE <<>>

\* the city name looked up in city_dict
RenameCity(c) == IF c = NewYork THEN NewYorkCity ELSE c

\* the value of city when the if / elif chain ends
CityAfterResolve(cc, cp, c, carg) ==
    IF cc = NoCoord /\ cp = NoCoord /\ carg = 1 /\ c # <<>>
    THEN RenameCity(c) ELSE c

\* a faulty chain: the place is tested before the coordinates
ResolveCoordPlaceFirst(cc, cp, c, carg) ==
    IF cp # NoCoord THEN cp
    ELSE IF cc # NoCoord THEN cc
    ELSE IF carg = 1 /\ c # <<>> /\ RenameCity(c) \in DOMAIN city_dict
    THEN city_dict[RenameCity(c)]
    ELSE NoCoord

\* the value of coord when the if / elif chain ends; NoCoord is False
ResolveCoord(cc, cp, c, carg) ==
    IF cc # NoCoord THEN cc
    ELSE IF cp # NoCoord THEN cp
    ELSE IF carg = 1 /\ c # <<>> /\ RenameCity(c) \in DOMAIN city_dict
    THEN city_dict[RenameCity(c)]
    ELSE NoCoord

\* a faulty filter: the region is not tested
KeepAnyCoord(c, st) == c # NoCoord

\* if coord: if state != 'No state found':
Keep(c, st) == c # NoCoord /\ st # NoState

\* [w for w in text_list if w not in stop_words]
NotStopWord(w) == w \notin stop_words
RemoveStopWords(text_list) == SelectSeq(text_list, NotStopWord)

\* d[k] = v
Put(d, k, v) == [x \in DOMAIN d \cup {k} |-> IF x = k THEN v ELSE d[x]]

\* text_list of the tweets the model reads (evaluated once per text)
TextList == [tx \in Texts |-> RemoveStopWords(process_tweet(tx))]

\* one iteration of `for t in tweets`
SelectTweet ==
    /\ pc = "select"
    /\ n_read < MaxTweets
    /\ \E tw \in TweetsWithId(n_read + 1) :
        /\ t' = tw
        /\ n_read' = n_read + 1
        /\ IF ~tw.has_text
           THEN UNCHANGED <<coord_coord, coord_place, city, coord, state,
                            tweet_dict>>
           ELSE LET cc == ReadCoordCoord(tw)
                    cp == ReadCoordPlace(tw)
                    c == ReadCity(tw)
                    co == ResolveCoord(cc, cp, c, city_arg)
                    st == IF co # NoCoord
                          THEN state_of_point(state_bounds, co[2], co[1])
                          ELSE state
                IN  /\ coord_coord' = cc
                    /\ coord_place' = cp
                    /\ city' = CityAfterResolve(cc, cp, c, city_arg)
                    /\ coord' = co
                    /\ state' = st
                    /\ tweet_dict' =
                         IF Keep(co, st)
                         THEN Put(tweet_dict, tw.id,
                                  <<st, co[2], co[1], TextList[tw.text],
                                    tw.text>>)
                         ELSE tweet_dict
    /\ UNCHANGED <<pc, city_arg, state_bounds, scores, term_sents, key,
                   p1_done, scores_update, output, tweet, w_list>>

NoTweet == NoTextRecord(0)

\* the input file is exhausted: scores is loaded and term_sents = {}.  The
\* locals of the selection loop are dead from here on and are cleared.
EndSelect ==
    /\ pc = "select"
    /\ pc' = "pass1"
    /\ term_sents' = EmptyDict
    /\ t' = NoTweet
    /\ coord_coord' = NoCoord
    /\ coord_place' = NoCoord
    /\ city' = <<>>
    /\ coord' = NoCoord
    /\ state' = "unbound"
    /\ UNCHANGED <<city_arg, state_bounds, scores, n_read, tweet_dict, key,
                   p1_done, scores_update, output, tweet, w_list>>

----------------------------------------------------------------------------
(* main(): pass 1, lexicon extension, pass 2                                *)

\* <<score, word_count>> after `for word in text_list`, from index i on
RECURSIVE KnownScore(_, _, _, _, _)
KnownScore(text_list, sc, i, score, word_count) ==
    IF i > Len(text_list) THEN <<score, word_count>>
    ELSE IF text_list[i] \in DOMAIN sc
    THEN KnownScore(text_list, sc, i + 1, score + sc[text_list[i]],
                    word_count + 1)
    ELSE KnownScore(text_list, sc, i + 1, score, word_count)

\* a faulty guard: posts with score 0 are not skipped
HasSignalAlways(score) == TRUE

\* if score != 0:
HasSignal(score) == score # 0

\* a faulty word_sent: the score is spread over all the words of the post
WordSentOverAllWords(text_list, score, word_count) ==
    IF Len(text_list) = word_count THEN Rat(score)
    ELSE RatDivInt(Rat(score), Len(text_list))

\* word_sent
WordSent(text_list, score, word_count) ==
    IF Len(text_list) = word_count THEN Rat(score)
    ELSE RatDivInt(Rat(score), Len(text_list) - word_count)

\* a faulty test: known words are accumulated too
IsNewWordAlways(word, sc) == TRUE

\* if word not in scores:
IsNewWord(word, sc) == word \notin DOMAIN sc

\* term_sents after the second `for word in text_list`, from index i on
RECURSIVE Accumulate(_, _, _, _, _)
Accumulate(ts, text_list, sc, i, word_sent) ==
    IF i > Len(text_list) THEN ts
    ELSE LET word == text_list[i]
         IN  IF IsNewWord(word, sc)
             THEN IF word \in DOMAIN ts
                  THEN Accumulate(
                         [ts EXCEPT ![word] =
                              <<RatAdd(@[1], word_sent), @[2] + 1>>],
                         text_list, sc, i + 1, word_sent)
                  ELSE Accumulate(Put(ts, word, <<word_sent, 1>>),
                                  text_list, sc, i + 1, word_sent)
             ELSE Accumulate(ts, text_list, sc, i + 1, word_sent)

\* term_sents after the body of `for value in tweet_dict.values()`
PassOneBody(ts, text_list, sc) ==
    LET ks == KnownScore(text_list, sc, 1, 0, 0)
    IN  IF HasSignal(ks[1])
        THEN Accumulate(ts, text_list, sc, 1,
                        WordSent(text_list, ks[1], ks[2]))
        ELSE ts

\* one iteration of `for value in tweet_dict.values()`; the dictionary's
\* iteration order is not specified
PassOneStep ==
    /\ pc = "pass1"
    /\ \E k \in DOMAIN tweet_dict \ p1_done :
        /\ key' = k
        /\ p1_done' = p1_done \cup {k}
        /\ term_sents' = PassOneBody(term_sents, tweet_dict[k][4], scores)
    /\ UNCHANGED <<pc, city_arg, state_bounds, scores, n_read, t, coord_coord,
                   coord_place, city, coord, state, tweet_dict, scores_update,
                   output, tweet, w_list>>

\* a faulty barrier: the extension does not wait for the end of the loop
PassOneAnywhere == TRUE

\* the pass-1 loop has run over every value
PassOneComplete == p1_done = DOMAIN tweet_dict

\* scores_update[key] = value[0] / value[1] for every key of term_sents
Averages(ts) == [w \in DOMAIN ts |-> RatDivInt(ts[w][1], ts[w][2])]

\* a faulty merge: the update with the seed table is lost
UpdateLost(d, sc) == d

\* d.update(sc): the entries of sc replace those of d
Update(d, sc) ==
    [w \in DOMAIN d \cup DOMAIN sc |->
        IF w \in DOMAIN sc THEN Rat(sc[w]) ELSE d[w]]

ExtendLexicon ==
    /\ pc = "pass1"
    /\ PassOneComplete
    /\ scores_update' = Update(Averages(term_sents), scores)
    /\ pc' = "pass2"
    /\ UNCHANGED <<city_arg, state_bounds, scores, n_read, t, coord_coord,
                   coord_place, city, coord, state, tweet_dict, term_sents,
                   key, p1_done, output, tweet, w_list>>

\* sum([sent_dict[word] for word in tweet if word in sent_dict])
RECURSIVE SentimentFrom(_, _, _)
SentimentFrom(tw, sent_dict, i) ==
    IF i > Len(tw) THEN Rat(0)
    ELSE IF tw[i] \in DOMAIN sent_dict
    THEN RatAdd(sent_dict[tw[i]], SentimentFrom(tw, sent_dict, i + 1))
    ELSE SentimentFrom(tw, sent_dict, i + 1)

get_sentiment(tw, sent_dict) == SentimentFrom(tw, sent_dict, 1)

\* one iteration of `for key, value in tweet_dict.items()`
PassTwoStep ==
    /\ pc = "pass2"
    /\ \E k \in DOMAIN tweet_dict :
        /\ Len(tweet_dict[k]) = 5
        /\ key' = k
        /\ LET value == tweet_dict[k]
               scored == Append(value, get_sentiment(value[4], scores_update))
           IN  /\ tweet_dict' = [tweet_dict EXCEPT ![k] = scored]
               /\ output' = Append(output,
                                   <<k, scored[1], scored[2], scored[3],
                                     scored[4], scored[5], scored[6]>>)
    /\ UNCHANGED <<pc, city_arg, state_bounds, scores, n_read, t, coord_coord,
                   coord_place, city, coord, state, term_sents, p1_done,
                   scores_update, tweet, w_list>>

\* out_file.close()
Finish ==
    /\ pc = "pass2"
    /\ \A k \in DOMAIN tweet_dict : Len(tweet_dict[k]) = 6
    /\ pc' = "done"
    /\ UNCHANGED <<city_arg, state_bounds, scores, n_read, t, coord_coord,
                   coord_place, city, coord, state, tweet_dict, term_sents,
                   key, p1_done, scores_update, output, tweet, w_list>>

Init ==
    /\ pc = "select"
    /\ city_arg \in {0, 1}
    /\ state_bounds = USStates
    /\ scores \in Seeds
    /\ n_read = 0
    /\ t = NoTweet
    /\ coord_coord = NoCoord
    /\ coord_place = NoCoord
    /\ city = <<>>
    /\ coord = NoCoord
    /\ state = "unbound"
    /\ tweet_dict = EmptyDict
    /\ term_sents = EmptyDict
    /\ key = 0
    /\ p1_done = {}
    /\ scores_update = EmptyDict
    /\ output = <<>>
    /\ tweet = <<>>
    /\ w_list = <<>>

Next ==
    \/ SelectTweet
    \/ EndSelect
    \/ PassOneStep
    \/ ExtendLexicon
    \/ PassTwoStep
    \/ Finish

Spec == Init /\ [][Next]_vars

----------------------------------------------------------------------------
(* state_of_point on its own: region tables of convex polygons and points   *)
(* on a grid                                                                *)

\* coordinates run over 0..GridMax
GridMax == 3

GridPoints == (0..GridMax) \X (0..GridMax)

Cross(a, b, c) ==
    (b[1] - a[1]) * (c[2] - a[2]) - (b[2] - a[2]) * (c[1] - a[1])

Triangles ==
    {<<a, b, c>> : a \in GridPoints, b \in GridPoints, c \in GridPoints}

Rotate(poly, k) ==
    [i \in 1..Len(poly) |-> poly[((i + k - 1) % Len(poly)) + 1]]

Reverse(poly) == [i \in 1..Len(poly) |-> poly[Len(poly) + 1 - i]]

Rectangles ==
    LET corners ==
            {<< <<x1, y1>>, <<x2, y1>>, <<x2, y2>>, <<x1, y2>> >> :
                 x1 \in 0..GridMax, x2 \in 0..GridMax,
                 y1 \in 0..GridMax, y2 \in 0..GridMax}
        proper == {r \in corners : r[1][1] < r[3][1] /\ r[1][2] < r[3][2]}
        turned == {Rotate(r, k) : r \in proper, k \in 0..3}
    IN  turned \cup {Reverse(r) : r \in turned}

Polygons == {p \in Triangles : Cross(p[1], p[2], p[3]) # 0} \cup Rectangles

\* a second region: one that covers the grid, one in its middle
Covering == << <<0, 0>>, <<GridMax, 0>>, <<GridMax, GridMax>>, <<0, GridMax>> >>
Middle == << <<1, 1>>, <<GridMax, 1>>, <<1, GridMax>> >>

RegionTables ==
    UNION {{ << [name |-> "B", bounds |-> Covering],
                [name |-> "A", bounds |-> p] >>,
             << [name |-> "B", bounds |-> Middle],
                [name |-> "A", bounds |-> p] >> } : p \in Polygons}

InitClassify ==
    /\ pc = "point"
    /\ state_bounds \in RegionTables
    /\ coord \in GridPoints
    /\ state = "unbound"
    /\ city_arg = 0
    /\ scores = EmptyDict
    /\ n_read = 0
    /\ t = NoTweet
    /\ coord_coord = NoCoord
    /\ coord_place = NoCoord
    /\ city = <<>>
    /\ tweet_dict = EmptyDict
    /\ term_sents = EmptyDict
    /\ key = 0
    /\ p1_done = {}
    /\ scores_update = EmptyDict
    /\ output = <<>>
    /\ tweet = <<>>
    /\ w_list = <<>>

\* state = state_of_point(state_bounds, coord[1], coord[0])
Classify ==
    /\ pc = "point"
    /\ state' = state_of_point(state_bounds, coord[2], coord[1])
    /\ pc' = "classified"
    /\ UNCHANGED <<city_arg, state_bounds, scores, n_read, t, coord_coord,
                   coord_place, city, coord, tweet_dict, term_sents, key,
                   p1_done, scores_update, output, tweet, w_list>>

NextClassify == Classify

SpecClassify == InitClassify /\ [][NextClassify]_vars

----------------------------------------------------------------------------
(* process_tweet on its own: texts put together from a few pieces           *)

\* number of pieces a text is made of at most
MaxPieces == 4

Pieces ==
    { <<"w","w","w",".">>, <<"h","t","t","p",":","/","/">>, <<"a">>, <<"A">>,
      <<"1">>, <<"_">>, <<" ">>, <<"@">>, <<"'">> }

RECURSIVE Concat(_)
Concat(ps) == IF ps = <<>> THEN <<>> ELSE Head(ps) \o Concat(Tail(ps))

InitProcessTweet ==
    /\ pc = "tweet"
    /\ \E n \in 0..MaxPieces : \E ps \in [1..n -> Pieces] : tweet = Concat(ps)
    /\ w_list = <<>>
    /\ city_arg = 0
    /\ state_bounds = USStates
    /\ scores = EmptyDict
    /\ n_read = 0
    /\ t = NoTweet
    /\ coord_coord = NoCoord
    /\ coord_place = NoCoord
    /\ city = <<>>
    /\ coord = NoCoord
    /\ state = "unbound"
    /\ tweet_dict = EmptyDict
    /\ term_sents = EmptyDict
    /\ key = 0
    /\ p1_done = {}
    /\ scores_update = EmptyDict
    /\ output = <<>>

\* w_list = process_tweet(tweet)
ProcessTweet ==
    /\ pc = "tweet"
    /\ w_list' = process_tweet(tweet)
    /\ pc' = "words"
    /\ UNCHANGED <<city_arg, state_bounds, scores, n_read, t, coord_coord,
                   coord_place, city, coord, state, tweet_dict, term_sents,
                   key, p1_done, scores_update, output, tweet>>

NextProcessTweet == ProcessTweet

SpecProcessTweet == InitProcessTweet /\ [][NextProcessTweet]_vars

----------------------------------------------------------------------------
(* Properties of state_of_point (checked under SpecClassify)                *)

\* every corner of poly turns the same way
IsConvex(poly) ==
    LET n == Len(poly)
        turn(i) == Cross(poly[i], poly[(i % n) + 1], poly[((i + 1) % n) + 1])
    IN  \/ \A i \in 1..n : turn(i) > 0
        \/ \A i \in 1..n : turn(i) < 0

\* (x, y) lies on the same strict side of every edge of poly
StrictlyInside(x, y, poly) ==
    LET n == Len(poly)
        side(i) == Cross(poly[i], poly[(i % n) + 1], <<x, y>>)
    IN  \/ \A i \in 1..n : side(i) > 0
        \/ \A i \in 1..n : side(i) < 0

\* the classified point is strictly interior to the convex region i
InteriorOf(i) ==
    /\ IsConvex(state_bounds[i].bounds)
    /\ StrictlyInside(coord[2], coord[1], state_bounds[i].bounds)

\* C8, as claimed: for every point strictly interior to a convex polygon of
\* the region table, state_of_point returns that polygon's region name.
C8_InteriorPointGetsItsRegion ==
    pc = "classified" =>
        \A i \in DOMAIN state_bounds :
            InteriorOf(i) => state = state_bounds[i].name

\* C8, amended: for every point strictly interior to a convex polygon of the
\* region table, point_inside_state accepts the point for that polygon, and
\* state_of_point returns the name of the first region in iteration order
\* that accepts the point: that polygon's name when no earlier region
\* accepts it, and never 'No state found'.
C8_InteriorPointGetsFirstMatch ==
    pc = "classified" =>
        \A i \in DOMAIN state_bounds :
            InteriorOf(i) =>
                /\ point_inside_state(coord[2], coord[1], state_bounds[i].bounds)
                /\ state # NoState
                /\ \E j \in 1..i :
                    /\ state = state_bounds[j].name
                    /\ point_inside_state(coord[2], coord[1],
                                          state_bounds[j].bounds)
                    /\ \A h \in 1..(j - 1) :
                        ~point_inside_state(coord[2], coord[1],
                                            state_bounds[h].bounds)

\* C8 witness: a point strictly interior to the second region, rejected by
\* the first, is classified as the second.
C8_Witness ==
    /\ pc = "classified"
    /\ state_bounds[1].bounds = Middle
    /\ Len(state_bounds[2].bounds) = 3
    /\ InteriorOf(2)
    /\ ~point_inside_state(coord[2], coord[1], Middle)
    /\ state = "A"

----------------------------------------------------------------------------
(* Properties of process_tweet (checked under SpecProcessTweet)             *)

IsUpper(c) == c \in Range(UpperLetters)
IsAlpha(c) == c \in Range(LowerLetters) \cup Range(UpperLetters)

\* position i of w lies in an occurrence of the word p in w
CoveredBy(w, i, p) ==
    \E j \in 1..Len(w) : StartsAt(w, j, p) /\ j <= i /\ i < j + Len(p)

\* C9, as claimed: every token process_tweet returns is lowercase, non-empty
\* and begins with an alphabetic character.
C9_TokensLowercaseAlphabeticLeading ==
    pc = "words" =>
        \A i \in DOMAIN w_list :
            /\ w_list[i] # <<>>
            /\ \A k \in DOMAIN w_list[i] : ~IsUpper(w_list[i][k])
            /\ IsAlpha(w_list[i][1])

\* C9, amended: every token process_tweet returns is non-empty and begins
\* with a letter or an underscore, never with a digit; its characters are
\* lowercase letters, digits and underscores, except for the upper-case
\* letters of the placeholders URL and USER that process_tweet inserted.
C9_TokensLowercaseButPlaceholders ==
    pc = "words" =>
        \A i \in DOMAIN w_list :
            LET w == w_list[i]
            IN  /\ w # <<>>
                /\ w[1] \notin Digits
                /\ IsAlpha(w[1]) \/ w[1] = "_"
                /\ \A k \in DOMAIN w :
                    /\ IsWordChar(w[k])
                    /\ IsUpper(w[k]) =>
                           CoveredBy(w, k, URL) \/ CoveredBy(w, k, USER)

\* C9 witness: "A @a" yields the lower-cased word and the placeholder.
C9_Witness ==
    /\ pc = "words"
    /\ tweet = <<"A", " ", "@", "a">>
    /\ w_list = << <<"a">>, USER >>

\* where a URL token of the documented forms, www.<non-space>+ or
\* http(s)://<non-space>+, starting at i ends (exclusive), or 0
DocUrlEnd(s, i) ==
    LET www == <<"w","w","w",".">>
        http == <<"h","t","t","p",":","/","/">>
        https == <<"h","t","t","p","s",":","/","/">>
    IN  IF StartsAt(s, i, www) /\ NonSpaceRunEnd(s, i + 4) > i + 4
        THEN NonSpaceRunEnd(s, i + 4)
        ELSE IF StartsAt(s, i, https) /\ NonSpaceRunEnd(s, i + 8) > i + 8
        THEN NonSpaceRunEnd(s, i + 8)
        ELSE IF StartsAt(s, i, http) /\ NonSpaceRunEnd(s, i + 7) > i + 7
        THEN NonSpaceRunEnd(s, i + 7)
        ELSE 0

\* the text with every URL token of the documented forms replaced by URL
RECURSIVE DocSubUrl(_, _)
DocSubUrl(s, i) ==
    IF i > Len(s) THEN <<>>
    ELSE IF DocUrlEnd(s, i) > 0 THEN URL \o DocSubUrl(s, DocUrlEnd(s, i))
    ELSE <<s[i]>> \o DocSubUrl(s, i + 1)

HasDocUrl(s) == \E i \in 1..Len(s) : DocUrlEnd(s, i) > 0

\* C10, as claimed: for every text containing a URL token of either form,
\* www.<non-space>+ or http(s)://<non-space>+, process_tweet replaces the
\* URL with the token URL and emits no token taken from the raw URL: its
\* words are those of the text with the URL tokens replaced.
C10_UrlTokensReplaced ==
    pc = "words" =>
        (HasDocUrl(Lower(tweet)) =>
            w_list = WordsAfterUrl(DocSubUrl(Lower(tweet), 1)))

----------------------------------------------------------------------------
(* Properties of the selection loop (checked under Spec)                    *)

\* the selection loop has just handled the tweet t, which has a text
Handled == pc = "select" /\ t.has_text

\* the coordinate the city table gives for t's user location, or NoCoord
CityCoordOf(tw) ==
    LET name == RenameCity(BeforeComma(tw.location))
    IN  IF name \in DOMAIN city_dict THEN city_dict[name] ELSE NoCoord

UsedPlace == coord # NoCoord /\ coord = t.place.vertex
UsedCity == coord # NoCoord /\ coord = CityCoordOf(t)

\* C1, as claimed: for every post, explicit coordinates, if present, are the
\* resolved coordinate; the place's first bounding-box vertex is used only
\* when explicit coordinates are absent; the city lookup is used only when
\* both are absent and city resolution is enabled.
C1_PriorityForEveryPost ==
    Handled =>
        /\ t.coordinates # NoCoord => coord = t.coordinates
        /\ UsedPlace => t.coordinates = NoCoord
        /\ UsedCity =>
               t.coordinates = NoCoord /\ ~t.place.present /\ city_arg = 1

\* C1, amended: for every English-language post, explicit coordinates, if
\* present, are the resolved coordinate, whether or not they fall in a
\* region; the first bounding-box vertex of a United States place is used
\* exactly when explicit coordinates are absent; the city lookup is used
\* only when explicit coordinates and a United States place are both absent
\* and city resolution is enabled.  A post in another language resolves to
\* no coordinate.
C1_PriorityForEnglishPosts ==
    Handled =>
        LET us == t.place.present /\ t.place.country = "United States"
        IN  /\ t.lang # "en" => coord = NoCoord
            /\ (t.lang = "en" /\ t.coordinates # NoCoord) =>
                   /\ coord = t.coordinates
                   /\ state = state_of_point(state_bounds, t.coordinates[2],
                                             t.coordinates[1])
                   /\ state = NoState => t.id \notin DOMAIN tweet_dict
            /\ (t.lang = "en" /\ t.coordinates = NoCoord /\ us) =>
                   /\ coord = t.place.vertex
                   /\ state = NoState => t.id \notin DOMAIN tweet_dict
            /\ UsedPlace => t.lang = "en" /\ t.coordinates = NoCoord /\ us
            /\ UsedCity =>
                   /\ t.lang = "en"
                   /\ t.coordinates = NoCoord
                   /\ ~us
                   /\ city_arg = 1

\* C1 witness: an English post whose explicit coordinates fall in no region
\* while its place and its city would resolve: the coordinates win and the
\* post is dropped.
C1_Witness ==
    /\ Handled
    /\ city_arg = 1
    /\ t.lang = "en"
    /\ t.coordinates = <<9, 9>>
    /\ t.place = PlaceIowa
    /\ t.location = LocNewYork
    /\ coord = <<9, 9>>
    /\ state = NoState
    /\ t.id \notin DOMAIN tweet_dict

\* the region named st in the region table accepts the point (lat, lon)
RegionAccepts(st, lat, lon) ==
    \E i \in DOMAIN state_bounds :
        /\ state_bounds[i].name = st
        /\ point_inside_state(lat, lon, state_bounds[i].bounds)

\* t offers no signal that resolves to a coordinate
NoSignal(tw) ==
    \/ tw.lang # "en"
    \/ /\ tw.coordinates = NoCoord
       /\ ~(tw.place.present /\ tw.place.country = "United States")
       /\ city_arg # 1 \/ CityCoordOf(tw) = NoCoord

\* C7: only posts with a resolved coordinate and a matched region are in
\* tweet_dict and in the output: every entry names a region that accepts
\* its coordinate, a post without a resolvable signal or whose coordinate
\* lies in no region is not entered, and every output row is an entry.
C7_OnlyResolvedPostsProceed ==
    /\ \A k \in DOMAIN tweet_dict :
        /\ tweet_dict[k][1] # NoState
        /\ RegionAccepts(tweet_dict[k][1], tweet_dict[k][2], tweet_dict[k][3])
    /\ Handled =>
        /\ NoSignal(t) => t.id \notin DOMAIN tweet_dict
        /\ (coord # NoCoord
            /\ state_of_point(state_bounds, coord[2], coord[1]) = NoState)
               => t.id \notin DOMAIN tweet_dict
    /\ \A i \in DOMAIN output :
        /\ output[i][1] \in DOMAIN tweet_dict
        /\ output[i][2] # NoState
        /\ RegionAccepts(output[i][2], output[i][3], output[i][4])

\* C7 witness: the first post was entered, the second one, whose place
\* vertex lies in no region, was not.
C7_Witness ==
    /\ pc = "select"
    /\ n_read = 2
    /\ t.has_text /\ t.lang = "en"
    /\ t.place = PlaceOffshore
    /\ coord = <<3, 1>>
    /\ state = NoState
    /\ DOMAIN tweet_dict = {1}

----------------------------------------------------------------------------
(* Properties of the scoring passes (checked under Spec)                    *)

\* a * n for a rational a and an integer n
RatMulInt(a, n) == Frac(a[1] * n, a[2])

\* number of occurrences of w in words
Occurrences(w, words) == Cardinality({i \in DOMAIN words : words[i] = w})

KnownPositions(words) == {i \in DOMAIN words : words[i] \in DOMAIN scores}
UnknownWords(words) == {w \in Range(words) : w \notin DOMAIN scores}

\* sum of the seed scores of the known words at positions 1..i of words
RECURSIVE SeedSum(_, _)
SeedSum(words, i) ==
    IF i = 0 THEN 0
    ELSE SeedSum(words, i - 1)
         + (IF words[i] \in DOMAIN scores THEN scores[words[i]] ELSE 0)

\* score / (len(words) - known_count) of a post with an unknown word
Residual(words) ==
    Frac(SeedSum(words, Len(words)),
         Len(words) - Cardinality(KnownPositions(words)))

\* the accumulator of w, <<0, 0>> when w has none
StatOf(ts, w) == IF w \in DOMAIN ts THEN ts[w] ELSE <<Rat(0), 0>>

\* pass 1 takes a step: it iterates over the post key'
PassOneSteps == pc = "pass1" /\ p1_done' # p1_done

\* C2: in pass 1, a post whose known-word score is non-zero and that has an
\* unknown word adds, for each occurrence of an unknown word w,
\* score / (len(words) - known_count) to the total of w and 1 to its count.
C2_ResidualAccumulated ==
    [][PassOneSteps =>
        LET words == tweet_dict[key'][4]
        IN  (SeedSum(words, Len(words)) # 0 /\ UnknownWords(words) # {}) =>
                \A w \in UnknownWords(words) :
                    /\ w \in DOMAIN term_sents'
                    /\ term_sents'[w][1] =
                         RatAdd(StatOf(term_sents, w)[1],
                                RatMulInt(Residual(words),
                                          Occurrences(w, words)))
                    /\ term_sents'[w][2] =
                         StatOf(term_sents, w)[2] + Occurrences(w, words)
    ]_vars

\* C2 witness: with the seed {good: 3}, pass 1 has run over the single post
\* [good, awesome] and holds (3, 1) for awesome.
C2_Witness ==
    /\ pc = "pass1"
    /\ scores = SeedGood
    /\ p1_done = {1}
    /\ DOMAIN tweet_dict = {1}
    /\ tweet_dict[1][4] = <<good, awesome>>
    /\ term_sents = (awesome :> <<Rat(3), 1>>)

\* C5: a post whose known-word score is 0 leaves term_sents unchanged.
C5_ZeroScoreNoInference ==
    [][PassOneSteps =>
        LET words == tweet_dict[key'][4]
        IN  SeedSum(words, Len(words)) = 0 => term_sents' = term_sents
    ]_vars

\* C5 witness: with the seed {good: 2, bad: -2}, pass 1 has run over
\* [good, bad, great] and over a post with no words, and holds nothing.
C5_Witness ==
    /\ pc = "pass1"
    /\ scores = SeedGoodBad
    /\ p1_done = {1, 2}
    /\ tweet_dict[1][4] = <<good, bad, great>>
    /\ tweet_dict[2][4] = <<>>
    /\ term_sents = EmptyDict

\* C6: a post all of whose words are in the seed lexicon leaves term_sents
\* unchanged, whatever its score; every key of term_sents, and every entry
\* the extension adds to the lexicon, is a word absent from the seed lexicon.
C6_KnownWordsNeverInferred ==
    /\ [](/\ DOMAIN term_sents \cap DOMAIN scores = {}
          /\ pc \in {"pass2", "done"} =>
                 DOMAIN scores_update = DOMAIN scores \cup DOMAIN term_sents)
    /\ [][PassOneSteps =>
            LET words == tweet_dict[key'][4]
            IN  UnknownWords(words) = {} => term_sents' = term_sents
       ]_vars

\* C6 witness: pass 1 has run over [good, awesome] and then over
\* [good, good], and holds an accumulator for awesome only.
C6_Witness ==
    /\ pc = "pass1"
    /\ p1_done = {1, 2}
    /\ key = 2
    /\ tweet_dict[1][4] = <<good, awesome>>
    /\ tweet_dict[2][4] = <<good, good>>
    /\ DOMAIN term_sents = {awesome}

\* C4: after the extension step the lexicon maps every word of the seed
\* table to its seed score.
C4_SeedEntriesKept ==
    pc \in {"pass2", "done"} =>
        \A w \in DOMAIN scores :
            /\ w \in DOMAIN scores_update
            /\ scores_update[w] = Rat(scores[w])

\* C4 witness: the extension step has merged an inferred entry and the seed.
C4_Witness ==
    /\ pc = "pass2"
    /\ scores = SeedGoodBad
    /\ DOMAIN scores_update = {good, bad, awesome}

\* keys 1..n of tweet_dict whose post feeds the inference
Feeds(k) ==
    /\ k \in DOMAIN tweet_dict
    /\ SeedSum(tweet_dict[k][4], Len(tweet_dict[k][4])) # 0
    /\ UnknownWords(tweet_dict[k][4]) # {}

\* total and count of w over the posts 1..n of the corpus
RECURSIVE CorpusTotal(_, _)
CorpusTotal(w, n) ==
    IF n = 0 THEN Rat(0)
    ELSE IF Feeds(n)
    THEN RatAdd(CorpusTotal(w, n - 1),
                RatMulInt(Residual(tweet_dict[n][4]),
                          Occurrences(w, tweet_dict[n][4])))
    ELSE CorpusTotal(w, n - 1)

RECURSIVE CorpusCount(_, _)
CorpusCount(w, n) ==
    IF n = 0 THEN 0
    ELSE CorpusCount(w, n - 1)
         + (IF Feeds(n) THEN Occurrences(w, tweet_dict[n][4]) ELSE 0)

\* the score of w in the fully merged lexicon; 0 when w is in neither part
MergedScore(w) ==
    IF w \in DOMAIN scores THEN Rat(scores[w])
    ELSE IF CorpusCount(w, n_read) > 0
    THEN RatDivInt(CorpusTotal(w, n_read), CorpusCount(w, n_read))
    ELSE Rat(0)

\* sum of the merged scores of the words at positions 1..i
RECURSIVE MergedSum(_, _)
MergedSum(words, i) ==
    IF i = 0 THEN Rat(0)
    ELSE RatAdd(MergedSum(words, i - 1), MergedScore(words[i]))

\* C3: a post is finally scored only after pass 1 has run over every post
\* and the lexicon has been merged, and its final score is the sum, over its
\* word occurrences, of the scores in the fully merged lexicon (the seed
\* plus the averages total/count over all posts of the corpus).
C3_FinalScoreAfterBarrier ==
    /\ \A k \in DOMAIN tweet_dict :
        Len(tweet_dict[k]) = 6 =>
            /\ pc \in {"pass2", "done"}
            /\ p1_done = DOMAIN tweet_dict
            /\ tweet_dict[k][6] =
                 MergedSum(tweet_dict[k][4], Len(tweet_dict[k][4]))
    /\ \A i \in DOMAIN output :
        /\ Len(tweet_dict[output[i][1]]) = 6
        /\ output[i][7] = tweet_dict[output[i][1]][6]

\* C3 witness: with the seed {good: 3}, the single post [good, awesome] has
\* been written with the final score 6.
C3_Witness ==
    /\ pc = "done"
    /\ scores = SeedGood
    /\ DOMAIN tweet_dict = {1}
    /\ tweet_dict[1][4] = <<good, awesome>>
    /\ tweet_dict[1][6] = Rat(6)
    /\ Len(output) = 1
    /\ output[1][7] = Rat(6)

====
